---- MODULE Spec2Model ----
(***************************************************************************)
(* SmartAgent protocol plugins: the request dispatcher and session         *)
(* registry of protocol_plugin.py (ProtocolService / ProtocolSession),     *)
(* and the polling session of DELL_EMC_Unity.py (UnitySession /            *)
(* UnityProtocol).  Python values are modelled as follows: a dict is a     *)
(* function, a list a sequence, None the string "None", a str request a    *)
(* sequence of words (so that `tag in req` is a containment test and       *)
(* `tag == req` an equality), a raised exception a record naming its type. *)
(***************************************************************************)
EXTENDS Integers, Sequences, FiniteSets, TLC

VARIABLES
    plugin,      \* ProtocolService.__plugin: "test" or "unity"
    sessions,    \* connection id -> ProtocolSession [inputs, configs]
    minted,      \* the uuid4 values drawn so far
    lastReq,     \* the event handled last: [session, req], a connect or a request
    response,    \* its outcome: a returned value or a raised exception
    call,        \* the plugin.run_queries invocation it made, if any
    issued,      \* history: ref -> what the plugin's loader produced for it
    api,         \* upstream: metric path -> the metricValue listing the API serves
    timestamps,  \* UnitySession.timestamps: path -> [timestamp, result]
    lastAgg,     \* the event seen last at the aggregator: an upstream change or a call
    file,        \* unity_timestamps.json: [exists, data]
    cyc,         \* the run_queries call in progress: position, query, results so far
    cycOut,      \* what the last finished run_queries returned or raised
    peer,        \* a run_queries call of another session on the same state file
    probe        \* a helper of UnitySession applied on its own: input and output

dvars == <<plugin, sessions, minted, lastReq, response, call, issued>>

avars == <<api, timestamps, lastAgg>>

cvars == <<file, cyc, cycOut, peer>>

pvars == <<probe>>

vars == <<dvars, avars, cvars, pvars>>

----------------------------------------------------------------------------
(* Bounds of the model *)

MaxRefs == 3

\* longest metricValue listing the upstream serves, and entries per page
MaxEntries == 2

PageSize == 1

\* longest listing of the catch-up scenario
CatchUpLen == 8

Refs == 1..MaxRefs

SessionIds == {"s1", "s2"}

None == "None"

----------------------------------------------------------------------------
(* Python values *)

Ok(v) == [kind |-> "Ok", exc |-> "", detail |-> [none |-> TRUE], value |-> <<v>>]

Raise(exc, detail) == [kind |-> "Raise", exc |-> exc, detail |-> detail, value |-> <<>>]

Put(f, k, v) == [x \in (DOMAIN f) \cup {k} |-> IF x = k THEN v ELSE f[x]]

EmptyMap == [x \in {} |-> None]

NoCall == [called |-> FALSE]

----------------------------------------------------------------------------
(* Requests.  A str request is a sequence of words; a map request has one  *)
(* key (words[1]) and the argument map stored under it.                    *)

Tags == {"protocol", "version", "load_inputs", "unload_inputs", "load_config",
         "unload_config", "show_queries", "run_queries", "get_tables", "get_fields"}

\* callable(getattr(self, name, None)) on a ProtocolService
ServiceMethods == {"protocol", "version", "load_inputs", "load_config",
                   "show_queries", "run_queries"}

RawInputs == { <<"tablesA">>, <<>> }

RawConfigs == { [hostname |-> "h1", config |-> [username |-> "u", password |-> "p"]],
                [hostname |-> "h1"] }

Queries == { [t \in {"T1", "T2"} |-> IF t = "T1" THEN {"f1"} ELSE {"f1", "f2"}] }

NoArgs == [query |-> None, input |-> None, config |-> None]

StrReq(words) == [form |-> "str", words |-> words, args |-> NoArgs]

MapReq(key, args) == [form |-> "map", words |-> <<key>>, args |-> args]

\* the event of a new connection, as lastReq records it
ConnectEvent == [form |-> "connect", words |-> <<>>, args |-> NoArgs]

Requests ==
    {StrReq(w) : w \in {<<"protocol">>, <<"version">>, <<"bogus">>,
                        <<"load_inputs">>, <<"my", "run_queries">>}}
    \cup {MapReq("load_inputs", [NoArgs EXCEPT !.input = i]) : i \in RawInputs}
    \cup {MapReq("load_config", [NoArgs EXCEPT !.config = c]) : c \in RawConfigs}
    \cup {MapReq("unload_inputs", [NoArgs EXCEPT !.input = r]) : r \in Refs}
    \cup {MapReq("unload_config", [NoArgs EXCEPT !.config = r]) : r \in Refs}
    \cup {MapReq("run_queries", [query |-> q, input |-> i, config |-> c]) :
             q \in Queries, i \in Refs, c \in Refs}
    \cup {MapReq("show_queries", [query |-> q, input |-> i, config |-> i + 1]) :
             q \in Queries, i \in Refs}
    \cup {MapReq(t, [NoArgs EXCEPT !.input = 1]) : t \in {"get_tables", "get_fields"}}
    \cup {MapReq("bogus", NoArgs)}

\* Python's `tag in req`: substring of a str, key of a dict
In(tag, req) == \E i \in DOMAIN req.words : req.words[i] = tag

\* Python's `tag == req`: only a str equals a str
Eq(tag, req) == req.form = "str" /\ req.words = <<tag>>

----------------------------------------------------------------------------
(* The plugins: TestProtocol (test_protocol.py) and UnityProtocol          *)

plugin_protocol(p) == IF p = "test" THEN "test" ELSE "DELL EMC Unity"

plugin_version(p) == "0.1.0"

\* UnityConfig.__init__: config["hostname"], config["config"]["username"/"password"]
UnityConfig(config) ==
    IF "hostname" \notin DOMAIN config THEN Raise("KeyError", [key |-> "hostname"])
    ELSE IF "config" \notin DOMAIN config THEN Raise("KeyError", [key |-> "config"])
    ELSE Ok([hostname |-> config.hostname,
             username |-> config.config.username,
             password |-> config.config.password])

plugin_load_inputs(p, inputs) ==
    IF p = "test" THEN Ok(inputs)
    ELSE IF Len(inputs) = 0 THEN Raise("IndexError", [text |-> "list index out of range"])
    ELSE Ok(inputs[1])

plugin_load_config(p, config) ==
    IF p = "test" THEN Ok(config) ELSE UnityConfig(config)

\* TestProtocol.run_queries with the loaded inputs put into every cell
test_run_queries_inputs(qry, inputs, config) ==
    Ok([tt \in {<<"test_", t>> : t \in DOMAIN qry} |->
          [Ok |-> [value |-> << [ff \in {<<"test_", f>> : f \in qry[tt[2]]} |->
                                    [Ok |-> [unicodestring |-> inputs]]] >>,
                   warnings |-> <<>>]]])

\* TestProtocol.run_queries: 'test_%s' % name is the pair <<"test_", name>>
test_run_queries(qry, inputs, config) ==
    Ok([tt \in {<<"test_", t>> : t \in DOMAIN qry} |->
          [Ok |-> [value |-> << [ff \in {<<"test_", f>> : f \in qry[tt[2]]} |->
                                    [Ok |-> [unicodestring |-> "test"]]] >>,
                   warnings |-> <<>>]]])

\* UnityProtocol.show_queries / TestProtocol.show_queries
plugin_show_queries(p, qry) == "queries: ..."

\* What a call of plugin.run_queries can come to, seen from the dispatcher:
\* UnityProtocol.run_queries returns its tables or raises (login, a command, logout)
plugin_run_queries(p, qry, inputs, config) ==
    IF p = "test" THEN {test_run_queries(qry, inputs, config)}
    ELSE {Ok([tables |-> DOMAIN qry]),
          Raise("ProtocolError", [text |-> "HTTP Status 404 - Not Found"]),
          Raise("Exception", [text |-> "API responded with 500"])}

----------------------------------------------------------------------------
(* ProtocolService.  Each operator gives the set of results the call can   *)
(* have: [response, inputs, configs, minted, call].                        *)

\* a uuid4 that draws the same value every time
uuid4_reuse == {CHOOSE r \in Refs : \A x \in Refs : r <= x}

\* str(uuid.uuid4()): a value never drawn before.  Refs are only ever compared
\* for equality, so the draws are taken in increasing order.
uuid4 == IF Refs \ minted = {} THEN {}
         ELSE {CHOOSE r \in Refs \ minted : \A x \in Refs \ minted : r <= x}

Result(resp, session, m, c) ==
    [response |-> resp, inputs |-> session.inputs, configs |-> session.configs,
     minted |-> m, call |-> c]

NotImplemented(name) ==
    Raise("Exception", [text |-> "Request not implemented: ", name |-> name])

service_protocol(session) == {Result(Ok(plugin_protocol(plugin)), session, minted, NoCall)}

service_version(session) == {Result(Ok(plugin_version(plugin)), session, minted, NoCall)}

\* load_inputs with the ref entered in the mapping before the loader is called
load_inputs_early(session, inputs) ==
    { LET h == plugin_load_inputs(plugin, inputs)
      IN  IF h.kind = "Raise"
          THEN [Result(h, session, minted \cup {ref}, NoCall)
                  EXCEPT !.inputs = Put(session.inputs, ref, None)]
          ELSE [Result(Ok(ref), session, minted \cup {ref}, NoCall)
                  EXCEPT !.inputs = Put(session.inputs, ref, h.value[1])]
      : ref \in uuid4 }

load_inputs(session, inputs) ==
    { LET h == plugin_load_inputs(plugin, inputs)
      IN  IF h.kind = "Raise"
          THEN Result(h, session, minted \cup {ref}, NoCall)
          ELSE [Result(Ok(ref), session, minted \cup {ref}, NoCall)
                  EXCEPT !.inputs = Put(session.inputs, ref, h.value[1])]
      : ref \in uuid4 }

\* load_config with the raw blob stored in place of the loader's handle
load_config_raw(session, config) ==
    { LET h == plugin_load_config(plugin, config)
      IN  IF h.kind = "Raise"
          THEN Result(h, session, minted \cup {ref}, NoCall)
          ELSE [Result(Ok(ref), session, minted \cup {ref}, NoCall)
                  EXCEPT !.configs = Put(session.configs, ref, config)]
      : ref \in uuid4 }

load_config(session, config) ==
    { LET h == plugin_load_config(plugin, config)
      IN  IF h.kind = "Raise"
          THEN Result(h, session, minted \cup {ref}, NoCall)
          ELSE [Result(Ok(ref), session, minted \cup {ref}, NoCall)
                  EXCEPT !.configs = Put(session.configs, ref, h.value[1])]
      : ref \in uuid4 }

\* run_queries with session.inputs.get(ref) / session.configs.get(ref)
run_queries_get(session, qry, inputs, config) ==
    LET hi == IF inputs \in DOMAIN session.inputs THEN session.inputs[inputs] ELSE None
        hc == IF config \in DOMAIN session.configs THEN session.configs[config] ELSE None
    IN  { Result(out, session, minted,
                 [called |-> TRUE, qry |-> qry, inputs |-> hi, config |-> hc])
          : out \in plugin_run_queries(plugin, qry, hi, hc) }

\* run_queries with the session's mappings emptied when the plugin raises
run_queries_drop(session, qry, inputs, config) ==
    IF inputs \notin DOMAIN session.inputs
    THEN {Result(Raise("KeyError", [ref |-> inputs]), session, minted, NoCall)}
    ELSE IF config \notin DOMAIN session.configs
    THEN {Result(Raise("KeyError", [ref |-> config]), session, minted, NoCall)}
    ELSE { Result(out,
                  IF out.kind = "Raise" THEN [inputs |-> EmptyMap, configs |-> EmptyMap]
                  ELSE session,
                  minted,
                  [called |-> TRUE, qry |-> qry, inputs |-> session.inputs[inputs],
                   config |-> session.configs[config]])
           : out \in plugin_run_queries(plugin, qry, session.inputs[inputs],
                                        session.configs[config]) }

run_queries(session, qry, inputs, config) ==
    IF inputs \notin DOMAIN session.inputs
    THEN {Result(Raise("KeyError", [ref |-> inputs]), session, minted, NoCall)}
    ELSE IF config \notin DOMAIN session.configs
    THEN {Result(Raise("KeyError", [ref |-> config]), session, minted, NoCall)}
    ELSE { Result(out, session, minted,
                  [called |-> TRUE, qry |-> qry, inputs |-> session.inputs[inputs],
                   config |-> session.configs[config]])
           : out \in plugin_run_queries(plugin, qry, session.inputs[inputs],
                                        session.configs[config]) }

\* show_queries(self, session, qry) is called with three arguments after session
show_queries(session, qry, inputs, config) ==
    {Result(Raise("TypeError", [text |-> "show_queries() takes exactly 3 arguments (5 given)"]),
            session, minted, NoCall)}

StrIndex(session) ==
    {Result(Raise("TypeError", [text |-> "string indices must be integers, not str"]),
            session, minted, NoCall)}

Guarded(session, req, name, served) ==
    IF name \notin ServiceMethods THEN {Result(NotImplemented(<<name>>), session, minted, NoCall)}
    ELSE IF req.form = "str" THEN StrIndex(session)
    ELSE served

request(session, req) ==
    IF Eq("protocol", req) THEN service_protocol(session)
    ELSE IF Eq("version", req) THEN service_version(session)
    ELSE IF In("load_inputs", req)
    THEN Guarded(session, req, "load_inputs", load_inputs(session, req.args.input))
    ELSE IF In("unload_inputs", req)
    THEN Guarded(session, req, "unload_inputs", {})
    ELSE IF In("load_config", req)
    THEN Guarded(session, req, "load_config", load_config(session, req.args.config))
    ELSE IF In("unload_config", req)
    THEN Guarded(session, req, "unload_config", {})
    ELSE IF In("show_queries", req)
    THEN Guarded(session, req, "show_queries",
                 show_queries(session, req.args.query, req.args.input, req.args.config))
    ELSE IF In("run_queries", req)
    THEN Guarded(session, req, "run_queries",
                 run_queries(session, req.args.query, req.args.input, req.args.config))
    ELSE IF In("get_tables", req)
    THEN Guarded(session, req, "get_tables", {})
    ELSE IF In("get_fields", req)
    THEN Guarded(session, req, "get_fields", {})
    ELSE IF req.form = "str"
    THEN {Result(NotImplemented(req.words), session, minted, NoCall)}
    ELSE {Result(Raise("TypeError", [text |-> "cannot concatenate 'str' and 'dict' objects"]),
                 session, minted, NoCall)}

----------------------------------------------------------------------------
(* The upstream metricValue listing and UnitySession.get_historic_metric_value *)

\* time.mktime(...) of the entries' timestamps: seconds after the epoch
Timestamps == {1, 2}

\* a timestamp of None; Python 2 orders None below every number
NoneTs == -1

MetricPaths == {"p1", "p2"}

\* the paths whose listing receives samples
SampledPaths == {"p1"}

\* metrics.get(command_line)
MetricName(path) == IF path = "p1" THEN "Read" ELSE None

\* content['values']: sub-resource -> number, or -> {inner key -> number};
\* a plain number is held under the inner key None
ValueShapes ==
    { [sp \in {"spa"} |-> [k \in {None} |-> 4]],
      [sp \in {"spa", "spb"} |-> IF sp = "spa" THEN [k \in {"k1"} |-> 2]
                                               ELSE [k \in {None} |-> 6]] }

Entry(ts, hasValues, values) == [ts |-> ts, hasValues |-> hasValues, values |-> values]

Entries ==
    {Entry(ts, TRUE, v) : ts \in Timestamps, v \in ValueShapes}
    \cup {Entry(ts, FALSE, EmptyMap) : ts \in Timestamps}

\* parameters: ParameterName -> field of the requested table
ParamSets ==
    { [n \in {"sp", "key", "value", "name"} |-> <<"F", n>>],
      [n \in {"sp", "value"} |-> <<"G", n>>] }

Min(a, b) == IF a < b THEN a ELSE b

\* the API serves the listing in pages of PageSize entries, an empty listing as
\* one empty page; a page has a 'next' link when entries remain
NumPages(listing) ==
    IF Len(listing) = 0 THEN 1 ELSE (Len(listing) + PageSize - 1) \div PageSize

Page(listing, n) ==
    SubSeq(listing, (n - 1) * PageSize + 1, Min(n * PageSize, Len(listing)))

HasNext(listing, n) == n < NumPages(listing)

\* the rows in a fixed order of the (sp, k) keys
KeyOrder == << <<"spa", None>>, <<"spa", "k1">>, <<"spb", None>>, <<"spb", "k1">> >>

\* count <= 5 in the accumulation guard
CountLimit == 5

\* timeseries[(sp, k)] = timeseries.setdefault((sp, k), 0) + v, for every value
Accumulate(timeseries, values) ==
    LET new == {<<sp, k>> : sp \in DOMAIN values, k \in {"k1", None}}
        keys == {key \in new : key[2] \in DOMAIN values[key[1]]}
    IN  [key \in (DOMAIN timeseries) \cup keys |->
            (IF key \in DOMAIN timeseries THEN timeseries[key] ELSE 0)
            + (IF key \in keys THEN values[key[1]][key[2]] ELSE 0)]

\* the loop state of one call
WalkState(old) ==
    [old |-> old, new |-> NoneTs, done |-> FALSE, brk |-> FALSE, count |-> 0,
     timeseries |-> EmptyMap, result |-> <<>>, raised |-> "", fetched |-> 1]

\* the body of `for entry in api_response['entries']`, without the short-circuit
ForEntry_noshort(st, ts_entry, entry) ==
    LET new == IF st.new \in {NoneTs, 0} THEN entry.ts ELSE st.new
    IN  IF st.brk THEN st
        ELSE IF entry.ts > st.old /\ entry.hasValues /\ (st.count <= CountLimit \/ st.old # 0)
        THEN [st EXCEPT !.new = new, !.count = st.count + 1,
                        !.timeseries = Accumulate(st.timeseries, entry.values)]
        ELSE [st EXCEPT !.new = new, !.done = TRUE]

\* the body of `for entry in api_response['entries']`, the cap applied when a
\* stored timestamp exists instead of when none does
ForEntry_capstate(st, ts_entry, entry) ==
    LET new == IF st.new \in {NoneTs, 0} THEN entry.ts ELSE st.new
    IN  IF st.brk THEN st
        ELSE IF new = st.old /\ DOMAIN st.timeseries = {}
        THEN IF "result" \notin DOMAIN ts_entry
             THEN [st EXCEPT !.new = new, !.raised = "KeyError", !.done = TRUE, !.brk = TRUE]
             ELSE [st EXCEPT !.new = new, !.result = ts_entry.result,
                             !.done = TRUE, !.brk = TRUE]
        ELSE IF entry.ts > st.old /\ entry.hasValues /\ (st.count <= CountLimit \/ st.old = 0)
        THEN [st EXCEPT !.new = new, !.count = st.count + 1,
                        !.timeseries = Accumulate(st.timeseries, entry.values)]
        ELSE [st EXCEPT !.new = new, !.done = TRUE]

\* the body of `for entry in api_response['entries']`, the else of line 168
\* leaving done as it is
ForEntry_nodone(st, ts_entry, entry) ==
    LET new == IF st.new \in {NoneTs, 0} THEN entry.ts ELSE st.new
    IN  IF st.brk THEN st
        ELSE IF new = st.old /\ DOMAIN st.timeseries = {}
        THEN IF "result" \notin DOMAIN ts_entry
             THEN [st EXCEPT !.new = new, !.raised = "KeyError", !.done = TRUE, !.brk = TRUE]
             ELSE [st EXCEPT !.new = new, !.result = ts_entry.result,
                             !.done = TRUE, !.brk = TRUE]
        ELSE IF entry.ts > st.old /\ entry.hasValues /\ (st.count <= CountLimit \/ st.old # 0)
        THEN [st EXCEPT !.new = new, !.count = st.count + 1,
                        !.timeseries = Accumulate(st.timeseries, entry.values)]
        ELSE [st EXCEPT !.new = new]

\* the body of `for entry in api_response['entries']` (lines 151-169); brk is
\* the break of line 159, after which the rest of the page is not looked at
ForEntry(st, ts_entry, entry) ==
    LET new == IF st.new \in {NoneTs, 0} THEN entry.ts ELSE st.new
    IN  IF st.brk THEN st
        ELSE IF new = st.old /\ DOMAIN st.timeseries = {}
        THEN IF "result" \notin DOMAIN ts_entry
             THEN [st EXCEPT !.new = new, !.raised = "KeyError", !.done = TRUE, !.brk = TRUE]
             ELSE [st EXCEPT !.new = new, !.result = ts_entry.result,
                             !.done = TRUE, !.brk = TRUE]
        ELSE IF entry.ts > st.old /\ entry.hasValues /\ (st.count <= CountLimit \/ st.old # 0)
        THEN [st EXCEPT !.new = new, !.count = st.count + 1,
                        !.timeseries = Accumulate(st.timeseries, entry.values)]
        ELSE [st EXCEPT !.new = new, !.done = TRUE]

RECURSIVE ForEntries(_, _, _, _)
ForEntries(st, ts_entry, entries, i) ==
    IF i > Len(entries) THEN st
    ELSE ForEntries(ForEntry(st, ts_entry, entries[i]), ts_entry, entries, i + 1)

\* `while not done` (lines 148-178): a page, then the page its 'next' link names;
\* failAt is the query_api call that raises, 0 when none does
RECURSIVE Walk(_, _, _, _, _)
Walk(st, ts_entry, listing, n, failAt) ==
    LET st1 == ForEntries(st, ts_entry, Page(listing, n), 1)
    IN  IF st1.done THEN st1
        ELSE IF ~HasNext(listing, n) THEN [st1 EXCEPT !.done = TRUE]
        ELSE IF failAt = n + 1 THEN [st1 EXCEPT !.raised = "Exception", !.fetched = n + 1]
        ELSE Walk([st1 EXCEPT !.fetched = n + 1], ts_entry, listing, n + 1, failAt)

\* one row of lines 181-191; v / count is Python 2's division of integers
Row(key, v, count, name, parameters) ==
    LET fields == {n \in DOMAIN parameters :
                      n \in {"sp", "value", "name"} \/ (n = "key" /\ key[2] # None)}
    IN  [f \in {parameters[n] : n \in fields} |->
            IF "sp" \in fields /\ f = parameters["sp"] THEN <<"str", key[1]>>
            ELSE IF "key" \in fields /\ f = parameters["key"] THEN <<"str", key[2]>>
            ELSE IF "value" \in fields /\ f = parameters["value"] THEN <<"num", v \div count>>
            ELSE <<"str", name>>]

RECURSIVE Rows(_, _, _, _, _)
Rows(timeseries, count, name, parameters, i) ==
    IF i > Len(KeyOrder) THEN <<>>
    ELSE (IF KeyOrder[i] \in DOMAIN timeseries
          THEN <<Row(KeyOrder[i], timeseries[KeyOrder[i]], count, name, parameters)>>
          ELSE <<>>)
         \o Rows(timeseries, count, name, parameters, i + 1)

\* UnitySession.get_historic_metric_value(path, name, parameters) on the state
\* tss and the listing the API serves: what it returns or raises, and the
\* timestamps mapping after it
get_historic_metric_value(tss, listing, path, name, parameters, failAt) ==
    LET ts_entry == IF path \in DOMAIN tss THEN tss[path] ELSE EmptyMap
        old == IF "timestamp" \in DOMAIN ts_entry THEN ts_entry.timestamp ELSE 0
        st == IF failAt = 1 THEN [WalkState(old) EXCEPT !.raised = "Exception"]
              ELSE Walk(WalkState(old), ts_entry, listing, 1, failAt)
        result == IF Len(st.result) = 0
                  THEN Rows(st.timeseries, st.count, name, parameters, 1)
                  ELSE st.result
    IN  IF st.raised # ""
        THEN [raised |-> st.raised, rows |-> <<>>, timestamps |-> tss, old |-> old,
              new |-> st.new, count |-> st.count, fetched |-> st.fetched,
              parameters |-> parameters]
        ELSE [raised |-> "", rows |-> result,
              timestamps |-> Put(tss, path, [timestamp |-> st.new, result |-> result]),
              old |-> old, new |-> st.new, count |-> st.count, fetched |-> st.fetched,
              parameters |-> parameters]

----------------------------------------------------------------------------
(* Actions around the aggregator: the upstream changes, a session calls *)

\* again: the call follows directly a call of the same path that returned
AggEvent(event, path, r) ==
    [event |-> event, path |-> path, raised |-> r.raised, rows |-> r.rows,
     old |-> r.old, new |-> r.new, count |-> r.count, fetched |-> r.fetched,
     parameters |-> r.parameters,
     again |-> event = "call" /\ lastAgg.event = "call" /\ lastAgg.path = path
               /\ lastAgg.raised = ""]

NoAgg == [raised |-> "", rows |-> <<>>, old |-> 0, new |-> NoneTs, count |-> 0, fetched |-> 0,
          parameters |-> EmptyMap]

\* the array records a sample: a new entry heads the listing of the path.
\* Nothing is assumed of its timestamp.
Sample(p, e) ==
    /\ Len(api[p]) < MaxEntries
    /\ api' = [api EXCEPT ![p] = <<e>> \o api[p]]
    /\ lastAgg' = AggEvent("sample", p, NoAgg)
    /\ UNCHANGED <<timestamps, dvars, cvars, pvars>>

\* the array drops the oldest entry of its rolling series
Expire(p) ==
    /\ Len(api[p]) > 0
    /\ api' = [api EXCEPT ![p] = SubSeq(api[p], 1, Len(api[p]) - 1)]
    /\ lastAgg' = AggEvent("expire", p, NoAgg)
    /\ UNCHANGED <<timestamps, dvars, cvars, pvars>>

\* a command of the session calls get_historic_metric_value
GetHistoric(p, parameters, failAt) ==
    LET r == get_historic_metric_value(timestamps, api[p], p, MetricName(p), parameters, failAt)
    IN  /\ timestamps' = r.timestamps
        /\ lastAgg' = AggEvent("call", p, r)
        /\ UNCHANGED <<api, dvars, cvars, pvars>>

\* UnitySession.__init__ with no state file: timestamps = {}
InitAgg ==
    /\ api = [p \in MetricPaths |-> <<>>]
    /\ timestamps = EmptyMap
    /\ lastAgg = [event |-> "init", path |-> None, raised |-> "", rows |-> <<>>, old |-> 0,
                  new |-> NoneTs, count |-> 0, fetched |-> 0, parameters |-> EmptyMap,
                  again |-> FALSE]

\* the array records a sample newer than all it holds, with or without values
FreshSample(p, hasValues) ==
    /\ Len(api[p]) < CatchUpLen
    /\ api' = [api EXCEPT ![p] =
                  <<Entry(Len(api[p]) + 1, hasValues,
                          IF hasValues THEN [sp \in {"spa"} |-> [k \in {None} |-> 4]]
                          ELSE EmptyMap)>>
                  \o api[p]]
    /\ lastAgg' = AggEvent("sample", p, NoAgg)
    /\ UNCHANGED <<timestamps, dvars, cvars, pvars>>

FullParams == [n \in {"sp", "key", "value", "name"} |-> <<"F", n>>]

NextCatchUp ==
    \/ \E p \in SampledPaths, hasValues \in BOOLEAN : FreshSample(p, hasValues)
    \/ \E p \in SampledPaths : GetHistoric(p, FullParams, 0)

NextAgg ==
    \/ \E p \in SampledPaths, e \in Entries : Sample(p, e)
    \/ \E p \in SampledPaths : Expire(p)
    \/ \E p \in MetricPaths, parameters \in ParamSets, failAt \in {0, 1, 2} :
          GetHistoric(p, parameters, failAt)

----------------------------------------------------------------------------
(* UnityProtocol.run_queries: one polling cycle, step by step *)

\* the loaded inputs: inputs['DataTables']['API_<table>'] and
\* inputs['DataFields']['API_<field>']['ParameterName']
DataTables ==
    [t \in {"Disks", "Reads", "ReadsAgain"} |->
        IF t = "Disks" THEN [CommandName |-> "get_resource", CommandLine |-> "disk"]
        ELSE [CommandName |-> "get_historic_metric_value", CommandLine |-> "p1"]]

ParameterName(field) ==
    IF field = "DiskName" THEN "name"
    ELSE IF field = "SP" THEN "sp"
    ELSE IF field = "Value" THEN "value"
    ELSE IF field = "DiskId" THEN "id"
    ELSE "name"

\* { ParameterName: field for field in fields }
Parameters(fields) ==
    [n \in {ParameterName(f) : f \in fields} |-> CHOOSE f \in fields : ParameterName(f) = n]

CycleQueries ==
    { [t \in {"Disks"} |-> {"DiskName"}],
      [t \in {"Reads"} |-> {"SP", "Value"}],
      [t \in {"Disks", "Reads"} |-> IF t = "Disks" THEN {"DiskName"} ELSE {"SP", "Value"}],
      [t \in {"Reads", "ReadsAgain"} |-> {"SP", "Value"}],
      [t \in {"Disks"} |-> {"name"}],
      [t \in {"Disks"} |-> {"DiskName", "DiskId"}] }

\* the disk objects the array lists
Disks == << [name |-> "d0", id |-> "i0"], [name |-> "d1", id |-> "i1"] >>

\* session.login(): the HTTP response, or the request raising
LoginOutcomes ==
    { [raises |-> FALSE, status |-> 200, denied |-> FALSE],
      [raises |-> FALSE, status |-> 200, denied |-> TRUE],
      [raises |-> FALSE, status |-> 404, denied |-> FALSE],
      [raises |-> FALSE, status |-> 401, denied |-> FALSE],
      [raises |-> TRUE, status |-> 0, denied |-> FALSE] }

NoLogin == [raises |-> FALSE, status |-> 0, denied |-> FALSE]

\* LoginError without the test of line 451
LoginError_no404(login) ==
    IF login.raises THEN Raise("ProtocolError", [text |-> "connection failed"])
    ELSE IF login.denied
    THEN Raise("ProtocolError", [text |-> "'Namespace' object has no attribute 'username'"])
    ELSE Ok(None)

\* lines 449-456: None when the cycle goes on, else the ProtocolError raised
LoginError(login) ==
    IF login.raises THEN Raise("ProtocolError", [text |-> "connection failed"])
    ELSE IF login.status = 404 THEN Raise("ProtocolError", [text |-> "HTTP Status 404 - Not Found"])
    ELSE IF login.denied
    THEN Raise("ProtocolError", [text |-> "'Namespace' object has no attribute 'username'"])
    ELSE Ok(None)

\* get_resource with the rows appended in the reverse of the entries' order
get_resource_reversed(entries, parameters) ==
    [i \in DOMAIN entries |->
        [f \in {parameters[n] : n \in DOMAIN parameters} |->
            <<"str", entries[Len(entries) + 1 - i]
                        [CHOOSE n \in DOMAIN parameters : parameters[n] = f]>>]]

\* get_resource for a flat listing (lines 243-251): one row per entry of the
\* response, in its order; a row holds, under each field, the entry's value of
\* the field's parameter
get_resource(entries, parameters) ==
    [i \in DOMAIN entries |->
        [f \in {parameters[n] : n \in DOMAIN parameters} |->
            <<"str", entries[i][CHOOSE n \in DOMAIN parameters : parameters[n] = f]>>]]

\* UnitySession.get_table: every value of every row wrapped in Ok
get_table(rows) ==
    [warnings |-> <<>>,
     value |-> [i \in DOMAIN rows |-> [f \in DOMAIN rows[i] |-> [Ok |-> rows[i][f]]]]]

\* try_run handing the table on as it is
try_run_bare(table) == table

\* try_run: the try / except of lines 471-474 is commented out
try_run(table) == [Ok |-> table]

\* the state file: whole is FALSE while the document in it is cut short
StateFile(exists, data, whole) == [exists |-> exists, data |-> data, whole |-> whole]

\* an access of the call to the outside: kind "read" or "write" of the state
\* file, or "http" for an exchange with the array; what and n name the URL
\* (n the page of a listing); ok is FALSE when the access raised or, for the
\* login, was answered with a failure
Access(kind, what, n, ok) == <<kind, what, n, ok>>

\* query_api for the pages of a metric listing (lines 141 and 175): the pages
\* requested by a call, the last one failing when the call raised on it
PageFetches(path, r) ==
    [k \in 1..r.fetched |->
        Access("http", path, k, ~(r.raised = "Exception" /\ k = r.fetched))]

\* start: the state file as the call found it; listed: the entries the API
\* listed for a table; io: the accesses of the call, in order
Idle == [pc |-> "idle", qry |-> EmptyMap, res |-> EmptyMap, login |-> NoLogin,
         failed |-> {}, log |-> <<>>, start |-> StateFile(FALSE, EmptyMap, TRUE),
         listed |-> EmptyMap, io |-> <<>>]

\* UnitySession(config) starting from the empty mapping whatever the file holds
StartCycle_fresh(qry) ==
    /\ cyc.pc = "idle"
    /\ cyc' = [Idle EXCEPT !.pc = "login", !.qry = qry, !.start = file]
    /\ timestamps' = EmptyMap
    /\ UNCHANGED <<cycOut, file, peer, api, lastAgg, dvars, pvars>>

\* line 447: UnitySession(config) reads the state file, if there is one
\* json.load raises on a document cut short, before the login
StartCycle(qry) ==
    /\ cyc.pc = "idle"
    /\ IF file.exists /\ ~file.whole
       THEN /\ cyc' = [Idle EXCEPT !.qry = qry, !.start = file,
                                   !.io = << Access("read", "state", 0, FALSE) >>]
            /\ cycOut' = Raise("ValueError", [text |-> "No JSON object could be decoded"])
            /\ UNCHANGED timestamps
       ELSE /\ cyc' = [Idle EXCEPT !.pc = "login", !.qry = qry, !.start = file,
                                   !.io = IF file.exists
                                          THEN << Access("read", "state", 0, TRUE) >>
                                          ELSE <<>>]
            /\ timestamps' = IF file.exists THEN file.data ELSE EmptyMap
            /\ UNCHANGED cycOut
    /\ UNCHANGED <<file, peer, api, lastAgg, dvars, pvars>>

\* the login exchange made a second time when the first one failed
Login_retry(login) ==
    /\ cyc.pc = "login"
    /\ LET err == LoginError(login)
           c == [cyc EXCEPT !.login = login, !.log = Append(cyc.log, <<"login", None>>),
                            !.io = Append(cyc.io, Access("http", "login", 0, err.kind = "Ok"))]
       IN  IF err.kind = "Raise"
           THEN /\ cyc' = [c EXCEPT !.pc = "idle",
                                    !.io = Append(c.io, Access("http", "login", 0, FALSE))]
                /\ cycOut' = err
           ELSE cyc' = [c EXCEPT !.pc = "tables"] /\ UNCHANGED cycOut
    /\ UNCHANGED <<file, peer, avars, dvars, pvars>>

\* lines 449-456
Login(login) ==
    /\ cyc.pc = "login"
    /\ LET err == LoginError(login)
           c == [cyc EXCEPT !.login = login, !.log = Append(cyc.log, <<"login", None>>),
                            !.io = Append(cyc.io, Access("http", "login", 0, err.kind = "Ok"))]
       IN  IF err.kind = "Raise"
           THEN cyc' = [c EXCEPT !.pc = "idle"] /\ cycOut' = err
           ELSE cyc' = [c EXCEPT !.pc = "tables"] /\ UNCHANGED cycOut
    /\ UNCHANGED <<file, peer, avars, dvars, pvars>>

\* lines 459-464, one table of the dict comprehension: a resource listing.
\* outcome: "ok", the HTTP call failing, or a field's data-walk raising;
\* the response lists the first n disks
RunResource(t, outcome, n) ==
    /\ cyc.pc = "tables"
    /\ t \in DOMAIN cyc.qry \ DOMAIN cyc.res
    /\ DataTables[t].CommandName = "get_resource"
    /\ LET c == [cyc EXCEPT !.log = Append(cyc.log, <<"query", t>>),
                            !.io = Append(cyc.io, Access("http", DataTables[t].CommandLine, 0,
                                                         outcome # "http"))]
           entries == SubSeq(Disks, 1, n)
       IN  IF outcome = "ok"
           THEN /\ cyc' = [c EXCEPT !.res = Put(cyc.res, t,
                              try_run(get_table(get_resource(entries, Parameters(cyc.qry[t]))))),
                                    !.listed = Put(cyc.listed, t, entries)]
                /\ UNCHANGED cycOut
           ELSE /\ cyc' = [c EXCEPT !.pc = "idle", !.failed = {t}]
                /\ cycOut' = Raise(IF outcome = "http" THEN "Exception" ELSE "TypeError",
                                   [text |-> outcome])
    /\ UNCHANGED <<file, peer, avars, dvars, pvars>>

\* RunHistoric with the state written to the file as soon as a path is updated
RunHistoric_flush(t, failAt) ==
    /\ cyc.pc = "tables"
    /\ t \in DOMAIN cyc.qry \ DOMAIN cyc.res
    /\ DataTables[t].CommandName = "get_historic_metric_value"
    /\ LET path == DataTables[t].CommandLine
           r == get_historic_metric_value(timestamps, api[path], path, MetricName(path),
                                          Parameters(cyc.qry[t]), failAt)
           c == [cyc EXCEPT !.log = Append(cyc.log, <<"query", t>>),
                            !.io = cyc.io \o PageFetches(path, r)]
       IN  IF r.raised = ""
           THEN /\ cyc' = [c EXCEPT !.res = Put(cyc.res, t, try_run(get_table(r.rows))),
                                    !.io = Append(c.io, Access("write", "state", 0, TRUE))]
                /\ timestamps' = r.timestamps
                /\ file' = StateFile(TRUE, r.timestamps, TRUE)
                /\ UNCHANGED cycOut
           ELSE /\ cyc' = [c EXCEPT !.pc = "idle", !.failed = {t}]
                /\ cycOut' = Raise(r.raised, [text |-> "http"])
                /\ UNCHANGED <<timestamps, file>>
    /\ UNCHANGED <<peer, api, lastAgg, dvars, pvars>>

\* lines 459-464, one table of the dict comprehension: a historical metric
RunHistoric(t, failAt) ==
    /\ cyc.pc = "tables"
    /\ t \in DOMAIN cyc.qry \ DOMAIN cyc.res
    /\ DataTables[t].CommandName = "get_historic_metric_value"
    /\ LET path == DataTables[t].CommandLine
           r == get_historic_metric_value(timestamps, api[path], path, MetricName(path),
                                          Parameters(cyc.qry[t]), failAt)
           c == [cyc EXCEPT !.log = Append(cyc.log, <<"query", t>>),
                            !.io = cyc.io \o PageFetches(path, r)]
       IN  IF r.raised = ""
           THEN /\ cyc' = [c EXCEPT !.res = Put(cyc.res, t, try_run(get_table(r.rows)))]
                /\ timestamps' = r.timestamps
                /\ UNCHANGED cycOut
           ELSE /\ cyc' = [c EXCEPT !.pc = "idle", !.failed = {t}]
                /\ cycOut' = Raise(r.raised, [text |-> "http"])
                /\ UNCHANGED timestamps
    /\ UNCHANGED <<file, peer, api, lastAgg, dvars, pvars>>

\* Finish with save_state called before logout
Finish_saveFirst(logoutOk) ==
    /\ cyc.pc = "tables"
    /\ DOMAIN cyc.res = DOMAIN cyc.qry
    /\ file' = StateFile(TRUE, timestamps, TRUE)
    /\ IF logoutOk
       THEN /\ cyc' = [cyc EXCEPT !.pc = "idle",
                          !.log = cyc.log \o << <<"save", None>>, <<"logout", None>> >>,
                          !.io = cyc.io \o << Access("write", "state", 0, TRUE),
                                              Access("http", "logout", 0, TRUE) >>]
            /\ cycOut' = Ok(cyc.res)
       ELSE /\ cyc' = [cyc EXCEPT !.pc = "idle",
                          !.log = cyc.log \o << <<"save", None>>, <<"logout", "raised">> >>,
                          !.io = cyc.io \o << Access("write", "state", 0, TRUE),
                                              Access("http", "logout", 0, FALSE) >>]
            /\ cycOut' = Raise("Exception", [text |-> "logout"])
    /\ UNCHANGED <<peer, avars, dvars, pvars>>

\* lines 466-468: logout, then save_state, then the tables are returned.
\* The log names an exchange that raised.
Finish(logoutOk) ==
    /\ cyc.pc = "tables"
    /\ DOMAIN cyc.res = DOMAIN cyc.qry
    /\ IF logoutOk
       THEN /\ cyc' = [cyc EXCEPT !.pc = "idle",
                          !.log = cyc.log \o << <<"logout", None>>, <<"save", None>> >>,
                          !.io = cyc.io \o << Access("http", "logout", 0, TRUE),
                                              Access("write", "state", 0, TRUE) >>]
            /\ file' = StateFile(TRUE, timestamps, TRUE)
            /\ cycOut' = Ok(cyc.res)
       ELSE /\ cyc' = [cyc EXCEPT !.pc = "idle",
                          !.log = Append(cyc.log, <<"logout", "raised">>),
                          !.io = Append(cyc.io, Access("http", "logout", 0, FALSE))]
            /\ cycOut' = Raise("Exception", [text |-> "logout"])
            /\ UNCHANGED file
    /\ UNCHANGED <<peer, avars, dvars, pvars>>

\* the upstream between two polls: a new sample heads the listing of the path
CycleSample(p, ts) ==
    /\ cyc.pc = "idle"
    /\ Len(api[p]) < MaxEntries
    /\ api' = [api EXCEPT ![p] =
                  <<Entry(ts, TRUE, [sp \in {"spa"} |-> [k \in {None} |-> 4]])>> \o api[p]]
    /\ UNCHANGED <<timestamps, lastAgg, dvars, cvars, pvars>>

\* the upstream between two polls: the oldest entry leaves the rolling series
CycleExpire(p) ==
    /\ cyc.pc = "idle"
    /\ Len(api[p]) > 0
    /\ api' = [api EXCEPT ![p] = SubSeq(api[p], 1, Len(api[p]) - 1)]
    /\ UNCHANGED <<timestamps, lastAgg, dvars, cvars, pvars>>

\* the other session is not in a call
NoPeer == [pc |-> "idle", timestamps |-> EmptyMap, polled |-> {}, saved |-> FALSE]

\* no state file yet, no cycle run yet
InitCycle ==
    /\ file = StateFile(FALSE, EmptyMap, TRUE)
    /\ cyc = Idle
    /\ cycOut = Ok(None)
    /\ peer = NoPeer

NextCycle ==
    \/ \E qry \in CycleQueries : StartCycle(qry)
    \/ \E login \in LoginOutcomes : Login(login)
    \/ \E t \in DOMAIN DataTables, outcome \in {"ok", "http", "walk"}, n \in 0..Len(Disks) :
          RunResource(t, outcome, n)
    \/ \E t \in DOMAIN DataTables, failAt \in {0, 1, 2} : RunHistoric(t, failAt)
    \/ \E logoutOk \in BOOLEAN : Finish(logoutOk)
    \/ \E p \in SampledPaths, ts \in Timestamps : CycleSample(p, ts)
    \/ \E p \in SampledPaths : CycleExpire(p)

----------------------------------------------------------------------------
(* The end of the cycle step by step, and the process ending in mid-call *)

\* line 466: session.logout()
Logout(logoutOk) ==
    /\ cyc.pc = "tables"
    /\ DOMAIN cyc.res = DOMAIN cyc.qry
    /\ IF logoutOk
       THEN /\ cyc' = [cyc EXCEPT !.pc = "save", !.log = Append(cyc.log, <<"logout", None>>),
                          !.io = Append(cyc.io, Access("http", "logout", 0, TRUE))]
            /\ UNCHANGED cycOut
       ELSE /\ cyc' = [cyc EXCEPT !.pc = "idle",
                          !.log = Append(cyc.log, <<"logout", "raised">>),
                          !.io = Append(cyc.io, Access("http", "logout", 0, FALSE))]
            /\ cycOut' = Raise("Exception", [text |-> "logout"])
    /\ UNCHANGED <<file, peer, avars, dvars, pvars>>

\* save_state, line 84: open(self.timestamps_file, 'w+') empties the file
SaveOpen ==
    /\ cyc.pc = "save"
    /\ cyc' = [cyc EXCEPT !.pc = "dump", !.log = Append(cyc.log, <<"save", None>>),
                           !.io = Append(cyc.io, Access("write", "state", 0, TRUE))]
    /\ file' = StateFile(TRUE, EmptyMap, FALSE)
    /\ UNCHANGED <<cycOut, peer, avars, dvars, pvars>>

\* save_state, line 84: json.dump has written the document and the file is
\* closed; line 468 returns the tables
SaveDump ==
    /\ cyc.pc = "dump"
    /\ cyc' = [cyc EXCEPT !.pc = "idle"]
    /\ file' = StateFile(TRUE, timestamps, TRUE)
    /\ cycOut' = Ok(cyc.res)
    /\ UNCHANGED <<peer, avars, dvars, pvars>>

\* the process is killed or the request abandoned at any point of the call:
\* what is in memory is gone, the file stays as it is
Crash ==
    /\ cyc.pc # "idle"
    /\ cyc' = [cyc EXCEPT !.pc = "idle"]
    /\ cycOut' = Raise("Killed", [text |-> cyc.pc])
    /\ UNCHANGED <<file, peer, avars, dvars, pvars>>

NextCrash ==
    \/ \E qry \in CycleQueries : StartCycle(qry)
    \/ \E login \in LoginOutcomes : Login(login)
    \/ \E t \in DOMAIN DataTables, outcome \in {"ok", "http", "walk"}, n \in 0..Len(Disks) :
          RunResource(t, outcome, n)
    \/ \E t \in DOMAIN DataTables, failAt \in {0, 1, 2} : RunHistoric(t, failAt)
    \/ \E logoutOk \in BOOLEAN : Logout(logoutOk)
    \/ SaveOpen
    \/ SaveDump
    \/ Crash
    \/ \E p \in SampledPaths, ts \in Timestamps : CycleSample(p, ts)
    \/ \E p \in SampledPaths : CycleExpire(p)

----------------------------------------------------------------------------
(* A second session polling the same array: its own UnitySession, the same  *)
(* state file                                                               *)

\* the paths of the tables the second session asks for
PeerPaths == MetricPaths \ SampledPaths

\* line 447: UnitySession(config) reads the state file, if there is one
PeerStart ==
    /\ peer.pc = "idle"
    /\ ~file.exists \/ file.whole
    /\ peer' = [pc |-> "run", timestamps |-> IF file.exists THEN file.data ELSE EmptyMap,
                polled |-> {}, saved |-> FALSE]
    /\ UNCHANGED <<file, cyc, cycOut, avars, dvars, pvars>>

\* lines 459-464: a table of the second session, after its login
PeerPoll(p) ==
    /\ peer.pc = "run"
    /\ p \notin peer.polled
    /\ LET r == get_historic_metric_value(peer.timestamps, api[p], p, MetricName(p),
                                          FullParams, 0)
       IN  peer' = [peer EXCEPT !.timestamps = r.timestamps, !.polled = peer.polled \cup {p}]
    /\ UNCHANGED <<file, cyc, cycOut, avars, dvars, pvars>>

\* lines 466-468: logout, save_state, return
PeerFinish ==
    /\ peer.pc = "run"
    /\ peer.polled = PeerPaths
    /\ peer' = [peer EXCEPT !.pc = "idle", !.saved = TRUE]
    /\ file' = StateFile(TRUE, peer.timestamps, TRUE)
    /\ UNCHANGED <<cyc, cycOut, avars, dvars, pvars>>

\* the two sessions' calls interleaved, every exchange of both succeeding;
\* the first session asks for the Reads table
NextConc ==
    \/ StartCycle([t \in {"Reads"} |-> {"SP", "Value"}])
    \/ Login([raises |-> FALSE, status |-> 200, denied |-> FALSE])
    \/ \E t \in DOMAIN DataTables : RunHistoric(t, 0)
    \/ Finish(TRUE)
    \/ PeerStart
    \/ \E p \in PeerPaths : PeerPoll(p)
    \/ PeerFinish
    \/ \E p \in SampledPaths, ts \in Timestamps : CycleSample(p, ts)
    \/ \E p \in SampledPaths : CycleExpire(p)

----------------------------------------------------------------------------
(* UnitySession.fill_in_row: the rendering of a duration *)

\* the hours of the durations rendered
DurationHours == (0..30) \cup {8760, 8786, 99999}

\* fill_in_row with the years taken as the number of days
fill_in_row_years(hh, mm, ms) ==
    LET years == hh \div 24
        days == (hh \div 24) % 365
        hours == hh % 24
        part(n, unit) == IF n # 0 THEN << <<n, unit>> >> ELSE <<>>
    IN  part(years, "years") \o part(days, "days") \o part(hours, "hours")
        \o part(mm, "minutes") \o part(ms, "seconds")

\* fill_in_row's duration text with the parts that are zero kept
fill_in_row_zeros(hh, mm, ms) ==
    LET years == (hh \div 24) \div 365
        days == (hh \div 24) % 365
        hours == hh % 24
        part(n, unit) == << <<n, unit>> >>
    IN  part(years, "years") \o part(days, "days") \o part(hours, "hours")
        \o part(mm, "minutes") \o part(ms, "seconds")

\* lines 207-225, for a value "hh:mm:ss.mmm" (hh of one to five digits): the
\* parts of the text, which ', ' joins; a part is <<number, unit>>, the
\* seconds of the last part counted in thousandths.  Python 2's / on ints.
fill_in_row(hh, mm, ms) ==
    LET years == (hh \div 24) \div 365
        days == (hh \div 24) % 365
        hours == hh % 24
        part(n, unit) == IF n # 0 THEN << <<n, unit>> >> ELSE <<>>
    IN  part(years, "years") \o part(days, "days") \o part(hours, "hours")
        \o part(mm, "minutes") \o part(ms, "seconds")

NoProbe == [fn |-> "none"]

\* fill_in_row meets a leaf that matches the pattern of a duration
FillInRow(hh, mm, ms) ==
    /\ probe' = [fn |-> "fill_in_row", value |-> <<hh, mm, ms>>, text |-> fill_in_row(hh, mm, ms)]
    /\ UNCHANGED <<dvars, avars, cvars>>

InitProbe == probe = NoProbe

NextRow == \E hh \in DurationHours, mm \in {0, 30}, ms \in {0, 15500} : FillInRow(hh, mm, ms)

----------------------------------------------------------------------------
(* get_historic_metric_value over one page of entries, in every order *)

\* the entries of the page, at most
MaxPage == 3

PageTimestamps == {1, 2, 3}

PageEntries == {Entry(ts, TRUE, v) : ts \in PageTimestamps, v \in ValueShapes}

PageListings == UNION {[1..n -> PageEntries] : n \in 0..MaxPage}

\* the stored timestamp the call finds: 0 when the path has no record
StoredTimestamps == {0, 1, 2}

\* the call on a listing the API serves as one page without a 'next' link:
\* the for loop of lines 151-169 over the page, then the rows of lines 180-191
WalkPage(old, entries) ==
    LET ts_entry == IF old = 0 THEN EmptyMap ELSE [timestamp |-> old, result |-> <<>>]
        st == ForEntries(WalkState(old), ts_entry, entries, 1)
        rows == IF Len(st.result) = 0
                THEN Rows(st.timeseries, st.count, "Read", FullParams, 1)
                ELSE st.result
    IN  /\ probe' = [fn |-> "get_historic_metric_value", old |-> old, entries |-> entries,
                     count |-> st.count, timeseries |-> st.timeseries, rows |-> rows]
        /\ UNCHANGED <<dvars, avars, cvars>>

NextPage == \E old \in StoredTimestamps, entries \in PageListings : WalkPage(old, entries)

----------------------------------------------------------------------------
(* UnitySession.follow_path over JSON trees *)

\* a JSON value as json.loads gives it: None, unicode, int, list, dict
JNull == [t |-> "null", v |-> <<>>]

JStr(s) == [t |-> "str", v |-> s]

JNum(n) == [t |-> "num", v |-> n]

JArr(items) == [t |-> "arr", v |-> items]

JObj(map) == [t |-> "obj", v |-> map]

\* the steps of the paths walked
PathSteps == {"a", "b", "*"}

\* the keys of the objects, in the order a dict yields them
KeyNames == <<"a", "b">>

\* the characters of a string
Chars(s) == IF s = "" THEN <<>> ELSE IF s = "d0" THEN <<"d", "0">> ELSE <<s>>

\* Python's truth value of a branch: `branch if branch else []`
Truthy(branch) ==
    CASE branch.t = "null" -> FALSE
      [] branch.t = "arr" -> Len(branch.v) > 0
      [] branch.t = "obj" -> DOMAIN branch.v # {}
      [] branch.t = "str" -> branch.v # ""
      [] branch.t = "num" -> branch.v # 0

\* what `new_branches += branch` appends for a branch that is true: the items
\* of a list, the keys of a dict, the characters of a string
Iterated(branch) ==
    CASE branch.t = "arr" -> branch.v
      [] branch.t = "obj" ->
           LET keys == SelectSeq(KeyNames, LAMBDA k : k \in DOMAIN branch.v)
           IN  [i \in DOMAIN keys |-> JStr(keys[i])]
      [] branch.t = "str" ->
           LET chars == Chars(branch.v) IN [i \in DOMAIN chars |-> JStr(chars[i])]
      [] OTHER -> <<>>

\* lines 127-129, step '*', from branch i on
RECURSIVE Expanded(_, _)
Expanded(tree, i) ==
    IF i > Len(tree) THEN <<>>
    ELSE (IF Truthy(tree[i]) THEN Iterated(tree[i]) ELSE <<>>) \o Expanded(tree, i + 1)

\* lines 126-132, one step of the path: the new branches, or the TypeError
\* of `new_branches += branch` for a number that is not 0
new_branches(tree, step) ==
    IF step = "*"
    THEN IF \E i \in DOMAIN tree : tree[i].t = "num" /\ Truthy(tree[i])
         THEN [raised |-> "TypeError", tree |-> <<>>]
         ELSE [raised |-> "", tree |-> Expanded(tree, 1)]
    ELSE [raised |-> "",
          tree |-> [i \in DOMAIN tree |->
                      IF tree[i].t = "obj" /\ step \in DOMAIN tree[i].v
                      THEN tree[i].v[step] ELSE JNull]]

\* lines 125-133: for step in path
RECURSIVE ForStep(_, _, _)
ForStep(st, path, i) ==
    IF i > Len(path) \/ st.raised # "" THEN st
    ELSE ForStep(new_branches(st.tree, path[i]), path, i + 1)

\* UnitySession.follow_path(dictionary, path): the branches, or what it raises
follow_path(dictionary, path) ==
    ForStep([raised |-> "",
             tree |-> IF dictionary.t = "arr" THEN dictionary.v ELSE <<dictionary>>],
            path, 1)

\* the trees walked
Trees ==
    << JObj([a |-> JArr(<< JObj([b |-> JStr("d0")]), JObj([b |-> JStr("d1")]),
                          JNull, JObj([a |-> JStr("x")]) >>)]),
      JObj([a |-> JArr(<< JArr(<< JStr("d0"), JStr("d1") >>), JArr(<<>>), JNull,
                          JArr(<< JArr(<< JStr("x") >>) >>) >>)]),
      JObj([a |-> JNum(5), b |-> JNull]),
      JObj([a |-> JNum(0), b |-> JStr("d0")]),
      JObj([a |-> JObj([b |-> JStr("d0")]), b |-> JArr(<< JNum(5) >>)]),
      JArr(<< JObj([a |-> JStr("d0")]), JObj([b |-> JStr("d1")]) >>),
      JNull >>

\* the paths walked: up to MaxPath steps
MaxPath == 3

Paths == UNION {[1..n -> PathSteps] : n \in 0..MaxPath}

FollowPath(dictionary, path) ==
    /\ probe' = [fn |-> "follow_path", dictionary |-> dictionary, path |-> path,
                 result |-> follow_path(dictionary, path)]
    /\ UNCHANGED <<dvars, avars, cvars>>

NextPath == \E n \in DOMAIN Trees, path \in Paths : FollowPath(Trees[n], path)

----------------------------------------------------------------------------
(* UnitySession.fill_in_row: the cell made of the leaves a path ends in *)

\* a unicode leaf "hh:mm:ss.mmm", which matches the pattern of line 207
JDur(hh, mm, ms) == [t |-> "dur", v |-> <<hh, mm, ms>>]

\* the leaves a path can end in
Leaves == << JStr("d0"), JNum(5), JNull, JDur(26, 30, 15500), JDur(0, 0, 0) >>

\* the leaves at the end of a path, at most
MaxLeaves == 3

Branches == UNION {[1..n -> DOMAIN Leaves] : n \in 0..MaxLeaves}

\* a piece of text of a cell: the leaf as it is (or its str), or the text
\* lines 208-225 make of a duration
AsIs(leaf) == [leaf |-> leaf, duration |-> FALSE, parts |-> <<>>]

AsDuration(leaf) ==
    [leaf |-> leaf, duration |-> TRUE, parts |-> fill_in_row(leaf.v[1], leaf.v[2], leaf.v[3])]

\* lines 206-230, row[datafield] for the branch follow_path returned: joined
\* is TRUE for '\n'.join([str(leaf) for leaf in branch])
row_datafield(branch) ==
    IF Len(branch) = 1 /\ branch[1].t = "dur"
    THEN [joined |-> FALSE, lines |-> << AsDuration(branch[1]) >>]
    ELSE IF Len(branch) = 1
    THEN [joined |-> FALSE, lines |-> << AsIs(branch[1]) >>]
    ELSE [joined |-> TRUE, lines |-> [i \in DOMAIN branch |-> AsIs(branch[i])]]

FillInCell(branch) ==
    /\ probe' = [fn |-> "row_datafield", branch |-> branch, cell |-> row_datafield(branch)]
    /\ UNCHANGED <<dvars, avars, cvars>>

NextCell == \E b \in Branches : FillInCell([i \in DOMAIN b |-> Leaves[b[i]]])

----------------------------------------------------------------------------
(* TestProtocol.run_queries applied to query specs, inputs and configs *)

\* query specs: table -> fields, over two tables and two fields
QuerySpecs == UNION {[T -> SUBSET {"f1", "f2"}] : T \in SUBSET {"T1", "T2"}}

\* what load_inputs and load_config of the test plugin hand back: the raw values
TestInputs == RawInputs \cup { <<"tablesB">> }

TestConfigs == RawConfigs

TestRunQueries(qry, inputs, config) ==
    /\ probe' = [fn |-> "test_run_queries", qry |-> qry, inputs |-> inputs,
                 config |-> config, result |-> test_run_queries(qry, inputs, config)]
    /\ UNCHANGED <<dvars, avars, cvars>>

NextTest ==
    \E qry \in QuerySpecs, inputs \in TestInputs, config \in TestConfigs :
        TestRunQueries(qry, inputs, config)

----------------------------------------------------------------------------
(* Actions of the dispatcher *)

ProtocolSession == [inputs |-> EmptyMap, configs |-> EmptyMap]

\* a session() that hands the new connection the mappings of an open one
Connect_copy(s) ==
    /\ s \notin DOMAIN sessions
    /\ sessions' = Put(sessions, s,
                       IF DOMAIN sessions = {} THEN ProtocolSession
                       ELSE sessions[CHOOSE x \in DOMAIN sessions : TRUE])
    /\ lastReq' = [session |-> s, req |-> ConnectEvent]
    /\ response' = Ok(None)
    /\ call' = NoCall
    /\ UNCHANGED <<plugin, minted, issued, avars, cvars, pvars>>

\* ProtocolService.session: a new connection gets a new ProtocolSession
Connect(s) ==
    /\ s \notin DOMAIN sessions
    /\ sessions' = Put(sessions, s, ProtocolSession)
    /\ lastReq' = [session |-> s, req |-> ConnectEvent]
    /\ response' = Ok(None)
    /\ call' = NoCall
    /\ UNCHANGED <<plugin, minted, issued, avars, cvars, pvars>>

\* What the loader made for the ref a load request returned
Issue(s, req, resp) ==
    IF req.form = "map" /\ resp.kind = "Ok" /\ req.words = <<"load_inputs">>
    THEN Put(issued, resp.value[1],
             [session |-> s, kind |-> "inputs",
              handle |-> plugin_load_inputs(plugin, req.args.input).value[1]])
    ELSE IF req.form = "map" /\ resp.kind = "Ok" /\ req.words = <<"load_config">>
    THEN Put(issued, resp.value[1],
             [session |-> s, kind |-> "configs",
              handle |-> plugin_load_config(plugin, req.args.config).value[1]])
    ELSE issued

\* RpcServer hands one decoded request of a connection to ProtocolService.request
Request(s, req) ==
    /\ s \in DOMAIN sessions
    /\ \E r \in request(sessions[s], req) :
         /\ sessions' = [sessions EXCEPT ![s] = [inputs |-> r.inputs, configs |-> r.configs]]
         /\ minted' = r.minted
         /\ response' = r.response
         /\ call' = r.call
         /\ issued' = Issue(s, req, r.response)
    /\ lastReq' = [session |-> s, req |-> req]
    /\ UNCHANGED <<plugin, avars, cvars, pvars>>

\* ProtocolService(UnityProtocol()) constructed, no connection yet
InitService ==
    /\ plugin = "unity"
    /\ sessions = EmptyMap
    /\ minted = {}
    /\ lastReq = [session |-> None, req |-> ConnectEvent]
    /\ response = Ok(None)
    /\ call = NoCall
    /\ issued = EmptyMap

Init ==
    /\ InitService
    /\ InitAgg
    /\ InitCycle
    /\ InitProbe

Next ==
    \/ \E s \in SessionIds : Connect(s)
    \/ \E s \in SessionIds, req \in Requests : Request(s, req)

Spec == Init /\ [][Next]_vars

\* a polling session's aggregator calls against a changing upstream
SpecAgg == Init /\ [][NextAgg]_vars

\* a session that polls a path whose series only grows, newest first
SpecCatchUp == Init /\ [][NextCatchUp]_vars

\* polling cycles of UnityProtocol.run_queries, one after the other
SpecCycle == Init /\ [][NextCycle]_vars

\* polling cycles with save_state in its steps and the process ending anywhere
SpecCrash == Init /\ [][NextCrash]_vars

\* polling cycles of two sessions on one state file
SpecConc == Init /\ [][NextConc]_vars

\* fill_in_row applied to durations
SpecRow == Init /\ [][NextRow]_vars

SpecPage == Init /\ [][NextPage]_vars

SpecTest == Init /\ [][NextTest]_vars

SpecPath == Init /\ [][NextPath]_vars

SpecCell == Init /\ [][NextCell]_vars

----------------------------------------------------------------------------
(* Properties of the dispatcher and the session registry *)

IsMap(req, tag) == req.form = "map" /\ req.words = <<tag>>

\* ref was returned to session s by the load of that kind
Returned(s, ref, kind) ==
    /\ ref \in DOMAIN issued
    /\ issued[ref].session = s
    /\ issued[ref].kind = kind

\* the code's rendering of UnknownReference: the KeyError of the dict lookup
UnknownReference(resp, refs) ==
    /\ resp.kind = "Raise"
    /\ resp.exc = "KeyError"
    /\ "ref" \in DOMAIN resp.detail
    /\ resp.detail.ref \in refs

\* C1: a run_queries request whose input ref or config ref was never returned
\* by load_inputs / load_config in that session fails with the unknown-reference
\* error for one of these refs, the plugin's run_queries is not invoked, and
\* the configs and inputs mappings of every session are as before.
C1_UnknownRefRejected ==
    [][LET s == lastReq'.session
           req == lastReq'.req
       IN  ( /\ IsMap(req, "run_queries")
             /\ ~(Returned(s, req.args.input, "inputs") /\ Returned(s, req.args.config, "configs")) )
           => ( /\ UnknownReference(response',
                      {r \in {req.args.input} : ~Returned(s, r, "inputs")}
                      \cup {r \in {req.args.config} : ~Returned(s, r, "configs")})
                /\ call'.called = FALSE
                /\ sessions' = sessions )]_vars

\* C1 witness: a run_queries whose input ref is loaded and whose config ref is
\* an inputs ref of the same session (never returned by load_config) was rejected.
C1_Witness ==
    /\ IsMap(lastReq.req, "run_queries")
    /\ Returned(lastReq.session, lastReq.req.args.input, "inputs")
    /\ Returned(lastReq.session, lastReq.req.args.config, "inputs")
    /\ UnknownReference(response, {lastReq.req.args.config})
    /\ ~call.called

\* C2: once load_inputs and load_config have returned r_i and r_c in a session,
\* run_queries(q, r_i, r_c) in that session is not rejected: the plugin is
\* invoked with q and exactly the handles its loaders produced for r_i and r_c,
\* and the response is the plugin's own outcome.
C2_LoadedRefsResolve ==
    [][LET s == lastReq'.session
           req == lastReq'.req
       IN  ( /\ IsMap(req, "run_queries")
             /\ Returned(s, req.args.input, "inputs")
             /\ Returned(s, req.args.config, "configs") )
           => ( /\ call'.called
                /\ call'.qry = req.args.query
                /\ call'.inputs = issued[req.args.input].handle
                /\ call'.config = issued[req.args.config].handle
                /\ response' \in plugin_run_queries(plugin, req.args.query,
                                                    issued[req.args.input].handle,
                                                    issued[req.args.config].handle) )]_vars

\* C2 witness: a run_queries was delegated with the handles of the first and
\* the last ref of the session, another load having happened in between.
C2_Witness ==
    /\ IsMap(lastReq.req, "run_queries")
    /\ call.called
    /\ response.kind = "Ok"
    /\ \E r \in DOMAIN issued :
          /\ r # lastReq.req.args.input
          /\ r # lastReq.req.args.config
          /\ (lastReq.req.args.input < r) # (lastReq.req.args.config < r)
    /\ call.inputs = "tablesA"
    /\ call.config = [hostname |-> "h1", username |-> "u", password |-> "p"]

\* the tag of a request: the whole str, or the key of the map
UnknownTag(req) == \A t \in Tags : req.words # <<t>>

\* C3 (as claimed): the last request served, if its tag is not one of the ten
\* vocabulary tags, was answered by the error naming that tag.
C3_UnknownTagNamed ==
    (lastReq.req.form \in {"str", "map"} /\ UnknownTag(lastReq.req))
    => ( /\ response.kind = "Raise"
         /\ response.exc = "Exception"
         /\ "name" \in DOMAIN response.detail
         /\ response.detail.name = lastReq.req.words )

\* C10 (as claimed): after unload_config(ref) / unload_inputs(ref) with a ref
\* the matching load returned in that session, the handle is gone.
C10_UnloadRemoves ==
    /\ ( IsMap(lastReq.req, "unload_config")
          /\ Returned(lastReq.session, lastReq.req.args.config, "configs") )
       => lastReq.req.args.config \notin DOMAIN sessions[lastReq.session].configs
    /\ ( IsMap(lastReq.req, "unload_inputs")
          /\ Returned(lastReq.session, lastReq.req.args.input, "inputs") )
       => lastReq.req.args.input \notin DOMAIN sessions[lastReq.session].inputs

\* the error raised for a request that is not implemented
IsNotImplemented(resp) ==
    /\ resp.kind = "Raise"
    /\ resp.exc = "Exception"
    /\ "name" \in DOMAIN resp.detail
    /\ resp.detail.text = "Request not implemented: "

\* C11 (as claimed): a get_tables / get_fields request is answered by the
\* not-implemented error naming the method; the error answering a request with
\* an unknown tag is of another kind; and a request whose tag has a method is
\* not answered by the not-implemented error.
C11_NotImplementedDistinct ==
    /\ \A t \in {"get_tables", "get_fields"} :
          IsMap(lastReq.req, t)
          => (IsNotImplemented(response) /\ response.detail.name = <<t>>)
    /\ (lastReq.req.form \in {"str", "map"} /\ UnknownTag(lastReq.req))
       => ~IsNotImplemented(response)
    /\ \A t \in ServiceMethods :
          (IsMap(lastReq.req, t) \/ Eq(t, lastReq.req)) => ~IsNotImplemented(response)

\* the last request was a load of this kind in session s that returned a ref
Loaded(lr, resp, kind) ==
    /\ IsMap(lr.req, IF kind = "inputs" THEN "load_inputs" ELSE "load_config")
    /\ resp.kind = "Ok"

\* C12: a ref returned by load_inputs or load_config was returned by no earlier
\* load, and the load leaves every handle the session already held under its
\* ref, unchanged.
C12_RefsNeverReused ==
    [][(Loaded(lastReq', response', "inputs") \/ Loaded(lastReq', response', "configs"))
       => LET s == lastReq'.session
          IN  /\ response'.value[1] \notin DOMAIN issued
              /\ response'.value[1] \notin DOMAIN sessions[s].inputs
              /\ response'.value[1] \notin DOMAIN sessions[s].configs
              /\ \A r \in DOMAIN sessions[s].inputs :
                    r \in DOMAIN sessions'[s].inputs
                    /\ sessions'[s].inputs[r] = sessions[s].inputs[r]
              /\ \A r \in DOMAIN sessions[s].configs :
                    r \in DOMAIN sessions'[s].configs
                    /\ sessions'[s].configs[r] = sessions[s].configs[r]]_vars

\* C12 witness: a session holds three refs, two of them of the same kind, the
\* last load having just returned the third.
C12_Witness ==
    /\ Loaded(lastReq, response, "inputs")
    /\ Cardinality(DOMAIN sessions[lastReq.session].inputs) = 2
    /\ Cardinality(DOMAIN sessions[lastReq.session].configs) = 1
    /\ response.value[1] \in DOMAIN sessions[lastReq.session].inputs

\* C18: a ref resolves only in the session whose load returned it, a
\* run_queries of another session naming it is rejected as an unknown
\* reference, and a request of one session leaves the mappings of every other
\* session as they were.
C18_SessionsIsolated ==
    [][/\ \A r \in DOMAIN issued', s \in DOMAIN sessions' :
             s # issued'[r].session
             => (r \notin DOMAIN sessions'[s].inputs /\ r \notin DOMAIN sessions'[s].configs)
       /\ \A s \in DOMAIN sessions :
             s # lastReq'.session => sessions'[s] = sessions[s]
       /\ ( /\ IsMap(lastReq'.req, "run_queries")
            /\ \E r \in {lastReq'.req.args.input, lastReq'.req.args.config} :
                  r \in DOMAIN issued /\ issued[r].session # lastReq'.session )
          => (response'.kind = "Raise" /\ response'.exc = "KeyError" /\ ~call'.called)]_vars

\* C18 witness: a session with an inputs ref and a config ref of its own named
\* the inputs ref of another session in run_queries and was rejected.
C18_Witness ==
    /\ IsMap(lastReq.req, "run_queries")
    /\ DOMAIN sessions = SessionIds
    /\ \A s \in SessionIds : sessions[s].inputs # EmptyMap
    /\ sessions[lastReq.session].configs # EmptyMap
    /\ lastReq.req.args.input \in DOMAIN issued
    /\ issued[lastReq.req.args.input].session # lastReq.session
    /\ Returned(lastReq.session, lastReq.req.args.config, "configs")
    /\ UnknownReference(response, {lastReq.req.args.input})

\* C20 (as claimed): a show_queries request with a loaded input ref and a loaded
\* config ref returns the plugin's description.
C20_ShowQueriesDescribes ==
    ( /\ IsMap(lastReq.req, "show_queries")
      /\ Returned(lastReq.session, lastReq.req.args.input, "inputs")
      /\ Returned(lastReq.session, lastReq.req.args.config, "configs") )
    => ( /\ response.kind = "Ok"
         /\ response.value[1] = plugin_show_queries(plugin, lastReq.req.args.query) )

\* the plugin raised while it served the run_queries request
PluginRaised(lr, resp, c) ==
    /\ IsMap(lr.req, "run_queries")
    /\ c.called
    /\ resp.kind = "Raise"

LoaderRaised(lr, resp) ==
    /\ IsMap(lr.req, "load_inputs") \/ IsMap(lr.req, "load_config")
    /\ resp.kind = "Raise"
    /\ resp.exc \in {"IndexError", "KeyError"}

\* C30: when the loader of load_inputs or load_config raises, the request fails
\* and the configs and inputs mappings of every session are exactly as before.
C30_FailedLoadStoresNothing ==
    [][LoaderRaised(lastReq', response') => sessions' = sessions]_vars

\* C30 witness: a load_inputs whose loader raised in a session that already
\* holds an inputs ref, the ref drawn for the failed load being in no mapping.
C30_Witness ==
    /\ LoaderRaised(lastReq, response)
    /\ IsMap(lastReq.req, "load_inputs")
    /\ sessions[lastReq.session].inputs # EmptyMap
    /\ \E r \in minted : \A s \in DOMAIN sessions :
          r \notin DOMAIN sessions[s].inputs /\ r \notin DOMAIN sessions[s].configs

----------------------------------------------------------------------------
(* Properties of the aggregator *)

\* C5: a call of get_historic_metric_value that directly follows a returned
\* call for the same path, the upstream listing unchanged in between, returns
\* the same rows and leaves the stored timestamp of the path as it was.
C5_Idempotent ==
    [][( /\ lastAgg.event = "call" /\ lastAgg.raised = ""
         /\ lastAgg'.event = "call" /\ lastAgg'.raised = ""
         /\ lastAgg'.path = lastAgg.path )
       => ( /\ lastAgg'.rows = lastAgg.rows
            /\ timestamps'[lastAgg.path].timestamp = timestamps[lastAgg.path].timestamp
            /\ timestamps'[lastAgg.path].result = lastAgg.rows )]_vars

\* C5 witness: the second of two calls in a row found the newest entry at the
\* stored timestamp and returned the stored, non-empty rows; the first had
\* walked on to the second page.
C5_Witness ==
    /\ lastAgg.event = "call"
    /\ lastAgg.again
    /\ lastAgg.raised = ""
    /\ lastAgg.old = lastAgg.new
    /\ lastAgg.count = 0
    /\ Len(lastAgg.rows) > 0
    /\ Len(api[lastAgg.path]) > PageSize

PageOf(i) == (i - 1) \div PageSize + 1

\* the walk of the last call stops at entry i: the entry is not newer than the
\* stored timestamp, or has no values, or comes after the samples of a first call
StopsAt(listing, old, i) ==
    \/ listing[i].ts <= old
    \/ ~listing[i].hasValues
    \/ old = 0 /\ i > CountLimit + 1

\* C25: a call that returned requested no more pages than the chain has; it
\* requested no page after the page of an entry not newer than the previous
\* timestamp (the short-circuit fires on such an entry, the first); and it
\* requested every page of the chain unless an entry of the pages it read
\* stopped it.
C25_WalkStops ==
    (lastAgg.event = "call" /\ lastAgg.raised = "")
    => LET listing == api[lastAgg.path]
       IN  /\ lastAgg.fetched \in 1..NumPages(listing)
           /\ \A i \in DOMAIN listing :
                 listing[i].ts <= lastAgg.old => lastAgg.fetched <= PageOf(i)
           /\ lastAgg.fetched < NumPages(listing)
              => \E i \in DOMAIN listing :
                    PageOf(i) <= lastAgg.fetched /\ StopsAt(listing, lastAgg.old, i)

\* C25 witness: a call stopped at a not-newer entry of the first page of a
\* longer chain, with no short-circuit.
C25_Witness ==
    /\ lastAgg.event = "call"
    /\ lastAgg.raised = ""
    /\ NumPages(api[lastAgg.path]) > 1
    /\ api[lastAgg.path][1].ts < lastAgg.old
    /\ lastAgg.fetched = 1

\* the sums of the first n entries of a page
RECURSIVE Folded(_, _)
Folded(entries, n) ==
    IF n = 0 THEN EmptyMap ELSE Accumulate(Folded(entries, n - 1), entries[n].values)

\* the entries before the first one that is not newer than old; all when none is
Newer(entries, old) ==
    IF \E i \in DOMAIN entries : entries[i].ts <= old
    THEN (CHOOSE i \in DOMAIN entries :
             /\ entries[i].ts <= old
             /\ \A j \in 1..(i - 1) : entries[j].ts > old) - 1
    ELSE Len(entries)

\* C26 (as claimed): once the walk has met an entry that is not newer than the
\* previous timestamp, no later entry adds to the count or to the sums, in
\* whatever order the page lists its entries.
C26_NothingAfterNotNewer ==
    probe.fn = "get_historic_metric_value"
    => /\ probe.count <= Newer(probe.entries, probe.old)
       /\ \A key \in DOMAIN probe.timeseries :
             /\ key \in DOMAIN Folded(probe.entries, Newer(probe.entries, probe.old))
             /\ probe.timeseries[key]
                  = Folded(probe.entries, Newer(probe.entries, probe.old))[key]

\* the samples of a page that hold a value for key
Holding(entries, key) ==
    {i \in DOMAIN entries : /\ key[1] \in DOMAIN entries[i].values
                            /\ key[2] \in DOMAIN entries[i].values[key[1]]}

\* the (sp, key) of a row built for FullParams
RowKey(row) ==
    << row[FullParams["sp"]][2],
       IF FullParams["key"] \in DOMAIN row THEN row[FullParams["key"]][2] ELSE None >>

\* C27 (as claimed): when every entry of the page is newer than the previous
\* timestamp, so that every entry is folded, the value of each row is the sum
\* of its (sp, key) divided by the number of samples that hold a value for
\* that (sp, key).
C27_MeanPerKey ==
    ( /\ probe.fn = "get_historic_metric_value"
      /\ \A i \in DOMAIN probe.entries : probe.entries[i].ts > probe.old )
    => \A r \in DOMAIN probe.rows :
          LET key == RowKey(probe.rows[r])
          IN  probe.rows[r][FullParams["value"]][2]
                = probe.timeseries[key] \div Cardinality(Holding(probe.entries, key))

\* C28 (as claimed): every row a call returns, a row of the short-circuit
\* included, carries fields the current caller requested, and each field the
\* caller requested for sp, value or name.
C28_RowsCarryCallerFields ==
    (lastAgg.event = "call" /\ lastAgg.raised = "")
    => \A i \in DOMAIN lastAgg.rows :
          /\ DOMAIN lastAgg.rows[i]
                \subseteq {lastAgg.parameters[n] : n \in DOMAIN lastAgg.parameters}
          /\ {lastAgg.parameters[n] : n \in DOMAIN lastAgg.parameters \ {"key"}}
                \subseteq DOMAIN lastAgg.rows[i]

\* C29 (as claimed): after a call that returned, the record of its path holds
\* a number as timestamp, the timestamp of the first entry of the first page
\* when there is one, and the rows the call returned as result.
C29_RecordAfterCall ==
    (lastAgg.event = "call" /\ lastAgg.raised = "")
    => /\ lastAgg.path \in DOMAIN timestamps
       /\ timestamps[lastAgg.path].timestamp # NoneTs
       /\ Len(api[lastAgg.path]) > 0
          => timestamps[lastAgg.path].timestamp = api[lastAgg.path][1].ts
       /\ timestamps[lastAgg.path].result = lastAgg.rows

----------------------------------------------------------------------------
(* Properties of the polling cycle *)

\* the cycle has had its login exchange answered with this HTTP status
LoginAnswered(status) ==
    /\ Len(cyc.log) > 0
    /\ ~cyc.login.raises
    /\ cyc.login.status = status

Queried == \E i \in DOMAIN cyc.log : cyc.log[i][1] = "query"

\* C4 (as claimed): from one save of the state file to the next, the timestamp
\* persisted for a metric path never decreases (None counted below every
\* number), whatever the listing the upstream returned in the cycle.
C4_TimestampMonotone ==
    [][\A p \in MetricPaths :
          (file.exists /\ p \in DOMAIN file.data /\ p \in DOMAIN file'.data)
          => file'.data[p].timestamp >= file.data[p].timestamp]_vars

\* C7 (as claimed): when, after a successful login, a table's command has
\* failed, run_queries still returns a result for every table of the query,
\* and every table other than the failed one is returned with Ok.
C7_FailureContained ==
    (LoginAnswered(200) /\ cyc.failed # {})
    => ( /\ cycOut.kind = "Ok"
         /\ DOMAIN cycOut.value[1] = DOMAIN cyc.qry
         /\ \A t \in DOMAIN cyc.qry \ cyc.failed : DOMAIN cycOut.value[1][t] = {"Ok"} )

C9_LoginFailureStops ==
    ( /\ Len(cyc.log) > 0
      /\ ~cyc.login.raises
      /\ (cyc.login.status # 200 \/ cyc.login.denied) )
    => ~Queried

\* the call has ended by returning its tables
Completed == cyc.pc = "idle" /\ Len(cyc.log) > 0 /\ cycOut.kind = "Ok"

\* the upstream exchanges and the save of the call, in the order they were made
Steps == [i \in DOMAIN cyc.log |-> cyc.log[i][1]]

\* the tables whose command was executed, in the order of execution
Executed == SelectSeq(cyc.log, LAMBDA e : e[1] = "query")

\* C13 (amended): in every call that completes the steps are, in this order,
\* the login, one fetch for each table of the query, the logout, and the save
\* of the state: the logout exchange is made before the state is written.
C13_LogoutThenPersist ==
    Completed
    => LET n == Len(cyc.log)
       IN  /\ n = Cardinality(DOMAIN cyc.qry) + 3
           /\ Steps[1] = "login"
           /\ \A i \in 2..(n - 2) : Steps[i] = "query"
           /\ Steps[n - 1] = "logout"
           /\ Steps[n] = "save"
           /\ file.data = timestamps

\* C13 witness: a call for two tables has completed, a state file being there
\* from an earlier call.
C13_Witness ==
    /\ Completed
    /\ cyc.start.exists
    /\ Len(Executed) = 2
    /\ Steps[Len(Steps)] = "save"

\* C13 (as claimed): in every call that completes, the state is written before
\* the logout exchange is made.
C13_PersistThenLogout ==
    Completed
    => \E i, j \in DOMAIN Steps : i < j /\ Steps[i] = "save" /\ Steps[j] = "logout"

\* the logout exchange of the call failed, every table command having succeeded
LogoutFailed ==
    /\ cyc.pc = "idle"
    /\ Len(cyc.log) > 0
    /\ cyc.log[Len(cyc.log)] = <<"logout", "raised">>

\* C14 (as claimed): when the logout exchange fails after every table command
\* succeeded, run_queries returns the tables and the state of the call is in
\* the state file.
C14_LogoutFailureAbsorbed ==
    LogoutFailed
    => ( /\ cycOut.kind = "Ok"
         /\ DOMAIN cycOut.value[1] = DOMAIN cyc.qry
         /\ file.exists
         /\ file.data = timestamps )

\* C15 (as claimed): after the process was killed at any point of the call, the
\* state file holds a whole document: the mapping the call found or the
\* mapping it was saving.
C15_SaveAtomic ==
    (cyc.pc = "idle" /\ cycOut.kind = "Raise" /\ cycOut.exc = "Killed")
    => ( /\ file.whole
         /\ (file = cyc.start \/ file.data = timestamps) )

\* save_state was not reached in the call
NotSaved == \A i \in DOMAIN Steps : Steps[i] # "save"

\* C16: a call that ended without reaching save_state (a command or the logout
\* raised, or the call was abandoned), whatever it had updated in memory, has
\* left the state file as the call found it.
C16_NoPartialFlush ==
    (cyc.pc = "idle" /\ Len(cyc.log) > 0 /\ cycOut.kind = "Raise" /\ NotSaved)
    => file = cyc.start

\* C16 witness: the Reads table was fetched and changed the timestamps in
\* memory, then the call ended on a raise; the state file of the earlier call
\* is as it was.
C16_Witness ==
    /\ cyc.pc = "idle"
    /\ cycOut.kind = "Raise"
    /\ NotSaved
    /\ "Reads" \in DOMAIN cyc.res
    /\ cyc.start.exists
    /\ timestamps # cyc.start.data
    /\ file = cyc.start

\* the command of a table: command name and command line
Command(t) == <<DataTables[t].CommandName, DataTables[t].CommandLine>>

\* C17 (as claimed): in one call no command is executed twice, whatever tables
\* resolve to it.
C17_CommandOnce ==
    \A i, j \in DOMAIN Executed :
       i # j => Command(Executed[i][2]) # Command(Executed[j][2])

\* the paths whose record the first session's call computed
Computed == {DataTables[t].CommandLine : t \in {x \in DOMAIN cyc.res :
                 DataTables[x].CommandName = "get_historic_metric_value"}}

\* C19 (as claimed): when the calls of both sessions have completed, the state
\* file holds, for every path either call computed, a record whose timestamp is
\* not below the one that call computed.
C19_NoLostUpdate ==
    (Completed /\ peer.pc = "idle" /\ peer.saved)
    => ( /\ \A p \in Computed :
               p \in DOMAIN file.data /\ file.data[p].timestamp >= timestamps[p].timestamp
         /\ \A p \in peer.polled :
               p \in DOMAIN file.data
               /\ file.data[p].timestamp >= peer.timestamps[p].timestamp )

----------------------------------------------------------------------------
(* Properties of the row builder *)

\* C22 (amended): the duration "26:30:15.500" is rendered as
\* "1 days, 2 hours, 30 minutes, 15.500000 seconds": 26 hours are one day and
\* two hours, and a part that is zero (here the years) is left out.
C22_DurationRendered ==
    (probe.fn = "fill_in_row" /\ probe.value = <<26, 30, 15500>>)
    => probe.text = << <<1, "days">>, <<2, "hours">>, <<30, "minutes">>, <<15500, "seconds">> >>

\* C22 witness: the duration "26:30:15.500" has been rendered, in four parts.
C22_Witness ==
    /\ probe.fn = "fill_in_row"
    /\ probe.value = <<26, 30, 15500>>
    /\ Len(probe.text) = 4

\* C22 (as claimed): the duration "26:30:15.500" is rendered as
\* "1 years, 1 days, 2 hours, 30 minutes, 15.500000 seconds".
C22_DurationWithYears ==
    (probe.fn = "fill_in_row" /\ probe.value = <<26, 30, 15500>>)
    => probe.text = << <<1, "years">>, <<1, "days">>, <<2, "hours">>, <<30, "minutes">>,
                       <<15500, "seconds">> >>

\* C35: a leaf H:MM:SS.mmm is rendered as the components years = H div
\* (24 * 365), days = (H div 24) mod 365, hours = H mod 24, minutes = MM and
\* seconds = SS.mmm, in this order and joined by ', ', every component that is
\* zero left out; when all are zero the text is empty.
C35_DurationComponents ==
    probe.fn = "fill_in_row"
    => LET H == probe.value[1]
           all == << <<H \div (24 * 365), "years">>, <<(H \div 24) % 365, "days">>,
                     <<H % 24, "hours">>, <<probe.value[2], "minutes">>,
                     <<probe.value[3], "seconds">> >>
       IN  /\ probe.text = SelectSeq(all, LAMBDA c : c[1] # 0)
           /\ probe.value = <<0, 0, 0>> => Len(probe.text) = 0

\* C35 witness: "8786:30:15.500" has been rendered with all five components,
\* one year first.
C35_Witness ==
    /\ probe.fn = "fill_in_row"
    /\ probe.value = <<8786, 30, 15500>>
    /\ Len(probe.text) = 5
    /\ probe.text[1] = <<1, "years">>

----------------------------------------------------------------------------
(* Properties of the tables run_queries returns *)

\* the table get_table and try_run make of the entries listed, for the fields F
ListingTable(entries, F) ==
    [Ok |-> [value |-> [i \in DOMAIN entries |->
                           [f \in F |-> [Ok |-> <<"str", entries[i][ParameterName(f)]>>]]],
             warnings |-> <<>>]]

IsResult(x) == DOMAIN x = {"Ok"} \/ DOMAIN x = {"Err"}

\* C24: a response of run_queries has one entry for each table of the query
\* and no other; an entry is a table-level Err or Ok of rows and a warnings
\* sequence, each cell of a row an Ok or an Err.
C24_OneEntryPerTable ==
    Completed
    => /\ DOMAIN cycOut.value[1] = DOMAIN cyc.qry
       /\ \A t \in DOMAIN cyc.qry :
             LET e == cycOut.value[1][t]
             IN  /\ IsResult(e)
                 /\ DOMAIN e = {"Ok"}
                    => /\ DOMAIN e.Ok = {"value", "warnings"}
                       /\ \A i \in DOMAIN e.Ok.value : \A f \in DOMAIN e.Ok.value[i] :
                             IsResult(e.Ok.value[i][f])

\* C24 witness: a call for two tables has returned an entry with rows for each.
C24_Witness ==
    /\ Completed
    /\ DOMAIN cyc.qry = {"Disks", "Reads"}
    /\ \A t \in DOMAIN cyc.qry : Len(cycOut.value[1][t].Ok.value) > 0

----------------------------------------------------------------------------
(* Properties of the test plugin *)

\* 'test_%s' % name
TestName(name) == <<"test_", name>>

\* C36: run_queries of the test plugin returns, for every query spec, one
\* entry for each requested table and no other, each an Ok with an empty
\* warnings sequence and one row that holds one Ok cell for each requested
\* field of the table; the same query spec gives the same result with any
\* other loaded inputs and config.
C36_TestPluginEchoes ==
    probe.fn = "test_run_queries"
    => /\ probe.result.kind = "Ok"
       /\ LET res == probe.result.value[1]
          IN  /\ DOMAIN res = {TestName(t) : t \in DOMAIN probe.qry}
              /\ Cardinality(DOMAIN res) = Cardinality(DOMAIN probe.qry)
              /\ \A t \in DOMAIN probe.qry :
                    LET e == res[TestName(t)]
                    IN  /\ DOMAIN e = {"Ok"}
                        /\ DOMAIN e.Ok = {"value", "warnings"}
                        /\ Len(e.Ok.warnings) = 0
                        /\ Len(e.Ok.value) = 1
                        /\ DOMAIN e.Ok.value[1] = {TestName(f) : f \in probe.qry[t]}
                        /\ \A ff \in DOMAIN e.Ok.value[1] : DOMAIN e.Ok.value[1][ff] = {"Ok"}
       /\ \A inputs \in TestInputs, config \in TestConfigs :
             test_run_queries(probe.qry, inputs, config).value = probe.result.value

\* C36 witness: the result for a query of two tables, one of them with two
\* fields, computed with loaded inputs that are not empty.
C36_Witness ==
    /\ probe.fn = "test_run_queries"
    /\ Cardinality(DOMAIN probe.qry) = 2
    /\ \E t \in DOMAIN probe.qry : Cardinality(probe.qry[t]) = 2
    /\ Len(probe.inputs) > 0
    /\ Cardinality(DOMAIN probe.result.value[1]) = 2

----------------------------------------------------------------------------
(* Properties of follow_path *)

\* the items of the branches that are lists, in order, from branch i on
RECURSIVE Flattened(_, _)
Flattened(tree, i) ==
    IF i > Len(tree) THEN <<>>
    ELSE (IF tree[i].t = "arr" THEN tree[i].v ELSE <<>>) \o Flattened(tree, i + 1)

\* C33 (as claimed): for every tree and path, the last step of the path acts
\* on the branches the steps before it gave as follows and raises nothing: a
\* step that is a key gives, branch by branch, the child at the key, null for
\* a branch that is no object or lacks the key; a '*' gives the branches'
\* elements, concatenated in order, null and empty branches giving none.
C33_FollowPathSteps ==
    ( /\ probe.fn = "follow_path"
      /\ Len(probe.path) > 0
      /\ follow_path(probe.dictionary, SubSeq(probe.path, 1, Len(probe.path) - 1)).raised = "" )
    => LET before == follow_path(probe.dictionary,
                                 SubSeq(probe.path, 1, Len(probe.path) - 1)).tree
           step == probe.path[Len(probe.path)]
           after == probe.result
       IN  /\ after.raised = ""
           /\ step # "*"
              => /\ Len(after.tree) = Len(before)
                 /\ \A i \in DOMAIN before :
                       after.tree[i] = IF before[i].t = "obj" /\ step \in DOMAIN before[i].v
                                       THEN before[i].v[step] ELSE JNull
           /\ (step = "*" /\ \A i \in DOMAIN before : before[i].t \in {"arr", "null"})
              => after.tree = Flattened(before, 1)

----------------------------------------------------------------------------
(* Properties of the cells of a row *)

\* C34 (as claimed): the cell of a path that ends in one leaf is that leaf; the
\* cell of a path that ends in more than one leaf is the leaves joined by a
\* newline; in both cases a leaf that matches the duration pattern enters the
\* cell as its human-readable duration text.
C34_CellOfLeaves ==
    (probe.fn = "row_datafield" /\ Len(probe.branch) > 0)
    => /\ probe.cell.joined = (Len(probe.branch) > 1)
       /\ Len(probe.cell.lines) = Len(probe.branch)
       /\ \A i \in DOMAIN probe.branch :
             /\ probe.cell.lines[i].leaf.t = probe.branch[i].t
             /\ probe.cell.lines[i].leaf.v = probe.branch[i].v
             /\ probe.cell.lines[i].duration = (probe.branch[i].t = "dur")

----------------------------------------------------------------------------
(* Properties of the accesses of a polling cycle *)

\* a call of run_queries has been made
Started == DOMAIN cyc.qry # {}

\* the positions of the accesses of the call of a kind
Accesses(kind) == {i \in DOMAIN cyc.io : cyc.io[i][1] = kind}

\* the positions of the login exchange, of the logout exchange, and of the
\* exchanges of the table commands
Logins == {i \in Accesses("http") : cyc.io[i][2] = "login"}

Logouts == {i \in Accesses("http") : cyc.io[i][2] = "logout"}

QueryCalls == Accesses("http") \ (Logins \cup Logouts)

\* the call ended at its login
LoginFailed ==
    /\ cyc.pc = "idle"
    /\ Len(cyc.io) > 0
    /\ Len(cyc.io) \in Logins
    /\ ~cyc.io[Len(cyc.io)][4]

C32_StateFileLifecycle ==
    /\ Accesses("read") \subseteq {1}
    /\ Started => (Accesses("read") = {1} <=> cyc.start.exists)
    /\ cyc.pc = "login"
       => /\ timestamps = IF cyc.start.exists THEN cyc.start.data ELSE EmptyMap
          /\ ~cyc.start.exists
             => \A p \in MetricPaths :
                   get_historic_metric_value(timestamps, api[p], p, MetricName(p),
                                             FullParams, 0).old = 0
    /\ Cardinality(Accesses("write")) <= 1
    /\ Completed
       => /\ Cardinality(Accesses("write")) = 1
          /\ file.exists
          /\ file.data = timestamps
    /\ LoginFailed
       => /\ Accesses("write") = {}
          /\ file = cyc.start

\* C32 witness: a call that found a state file has returned its tables and
\* has written another mapping to the file, once.
C32_Witness ==
    /\ Completed
    /\ cyc.start.exists
    /\ Accesses("read") = {1}
    /\ Cardinality(Accesses("write")) = 1
    /\ file.data # cyc.start.data

====
